---- MODULE Spec2Model ----
(***************************************************************************)
(* Model of sdk/spvpeer.go: the SPV peer session, its stall detector       *)
(* goroutine (stallHandler), the capacity-1 stallControl channel, and the  *)
(* two entry points that feed it (HandleMessage, QueueMessage /            *)
(* StallMessage).                                                          *)
(***************************************************************************)
EXTENDS Integers, Sequences, FiniteSets, TLC

(* ------------------------------------------------------------------ *)
(* Program constants                                                   *)
(* ------------------------------------------------------------------ *)
stallTickInterval == 15

stallResponseTimeout == 30

\* make(chan p2p.Message, 1)
StallControlCap == 1

\* p2p.CmdInv, the key of the generic inventory expectation
CmdInv == "inv"

(* ------------------------------------------------------------------ *)
(* Bounds of the model                                                 *)
(* ------------------------------------------------------------------ *)
\* number of distinct content hashes
NumHashes == 3

\* the clock advances in steps of TimeStep seconds
TimeStep == 15

\* seconds of wall clock explored after the session was created
Horizon == 45

\* number of entry-point calls in the fair specification
MaxCalls == 3

\* the zero value of time.Time (var lastActive time.Time)
ZeroTime == 0

\* wall clock when the session is created: far later than ZeroTime
StartTime == 100

MaxTime == StartTime + Horizon

\* block trackers a run may create (the first one and the resets)
MaxTrackers == 2

\* tracker 0 is SPVPeer.downloadTx
DownloadTx == 0

\* distinct transaction ids
NumTxIds == 2

\* tracker calls in a run
MaxOps == 4

\* notifications and requests in a run that records the wire
MaxWire == 4

TxIds == 1 .. NumTxIds

\* the block trackers are 1 .. MaxTrackers, the first made by NewSPVPeer
Trackers == {DownloadTx} \cup (1 .. MaxTrackers)

\* the tasks that call the trackers
Tasks == {"a", "b"}

Hashes == 1 .. NumHashes

(* ------------------------------------------------------------------ *)
(* Messages                                                            *)
(* ------------------------------------------------------------------ *)
\* A message is its kind, the hash of its own content (merkleblock: the
\* header's hash, tx: the transaction's hash) and its InvList (getdata).
Message(k, h, l) == [kind |-> k, hash |-> h, invList |-> l]

GetBlocks == Message("getblocks", 0, <<>>)

Inventory == Message("inv", 0, <<>>)

GetData(l) == Message("getdata", 0, l)

MerkleBlock(h) == Message("merkleblock", h, <<>>)

Tx(h) == Message("tx", h, <<>>)

NotFound == Message("notfound", 0, <<>>)

Reject == Message("reject", 0, <<>>)

\* any kind the session has no case for (filterload, addr, ...)
Other == Message("other", 0, <<>>)

NoMsg == Message("none", 0, <<>>)

\* the data request of the three-block scenario
ThreeBlocks == <<1, 2, 3>>

InvLists == {<<h>> : h \in Hashes} \cup {ThreeBlocks}

\* messages the transport delivers from the remote peer
InMsgs ==
  {Inventory, NotFound, Reject, Other}
    \cup {MerkleBlock(h) : h \in Hashes} \cup {Tx(h) : h \in Hashes}

\* messages the owner of the session sends
OutMsgs == {GetBlocks, Other} \cup {GetData(l) : l \in InvLists}

\* messages handed to StallMessage
NoticeMsgs == {Other}

\* messages of the fair specification
FairInMsgs == {Inventory, NotFound}

FairOutMsgs == {GetBlocks, Other}

\* common.Uint256.String(): the hexadecimal rendering of a hash
HashNames == <<"h1", "h2", "h3", "h4", "h5", "h6", "h7", "h8">>

String(h) == HashNames[h]

\* every key pendingResponses can hold
Keys == {CmdInv} \cup {String(h) : h \in Hashes}

(* ------------------------------------------------------------------ *)
(* State                                                               *)
(* ------------------------------------------------------------------ *)
VARIABLES
  connected,         \* net.Peer: what p.Connected() reports
  stallControl,      \* SPVPeer.stallControl, the buffered channel
  pendingResponses,  \* stallHandler local: expected responses
  lastActive,        \* stallHandler local: time of the last notification
  now,               \* time.Now()
  tickReady,         \* stallTicker.C holds a tick
  detPc,             \* stallHandler: "loop", "select", "cleanup", "done"
  hmPc,              \* HandleMessage: "idle", "notify", "route"
  hmMsg,             \* HandleMessage: the message being dispatched
  fired,             \* handlers invoked by the current / last dispatch
  hmNotified,        \* the current / last dispatch passed its channel send
  qmPc,              \* QueueMessage / StallMessage: "idle", "notify", "forward"
  qmMsg,             \* QueueMessage / StallMessage: the message
  qmOp,              \* which of the two entry points is running
  notified,          \* the current / last call passed its channel send
  waited,            \* the current / last call found the channel full
  forwarded,         \* Peer.QueueMessage calls of the current / last call
  disconnects,       \* p.Disconnect() calls made by stallHandler
  addedAt,           \* time the last expectation was added
  outcome,           \* what the last iteration of stallHandler did
  stage,             \* progress of the three-block scenario
  calls,             \* entry-point calls started (bounded specifications)
  observe,           \* what the run records: "none", "errors", "wire"
  hmFailed,          \* the handler of the current / last dispatch failed
  everFailed,        \* the handler of an earlier dispatch failed
  handed,            \* notifications sent to the channel, in order
  taken,             \* notifications taken by stallHandler's loop, in order
  outstanding,       \* per key: forwarded requests the peer has yet to answer
  downloading,       \* SPVPeer.downloading: the current block tracker
  queue,             \* per tracker: the keys of its queue / txQueue map
  mutex,             \* per tracker: the task holding its mutex, or "free"
  tPc,               \* per tracker task: where it is in its call
  tOp,               \* per tracker task: the operation called
  tArg,              \* per tracker task: the txId argument
  tRef,              \* per tracker task: the p.downloading it last read
  tRes,              \* per tracker task: the value returned
  parked,            \* per tracker task: its call found the mutex locked
  enqueued,          \* per tracker: inserts of an absent txId
  dequeued           \* per tracker: deletes made by dequeueTx

vars ==
  <<connected, stallControl, pendingResponses, lastActive, now, tickReady,
    detPc, hmPc, hmMsg, fired, hmNotified, qmPc, qmMsg, qmOp, notified,
    waited, forwarded, disconnects, addedAt, outcome, stage, calls,
    observe, hmFailed, everFailed, handed, taken, outstanding, downloading,
    queue, mutex, tPc, tOp, tArg, tRef, tRes, parked, enqueued, dequeued>>

detVars ==
  <<pendingResponses, lastActive, detPc, disconnects, addedAt, outcome, stage>>

hmVars == <<hmPc, hmMsg, fired, hmNotified>>

qmVars == <<qmPc, qmMsg, qmOp, notified, waited, forwarded>>

trVars ==
  <<downloading, queue, mutex, tPc, tOp, tArg, tRef, tRes, parked,
    enqueued, dequeued>>

\* everything of the session but the trackers
peerVars ==
  <<connected, stallControl, now, tickReady, detVars, hmVars, qmVars,
    observe, hmFailed, everFailed, handed, taken, outstanding>>

(* ------------------------------------------------------------------ *)
(* net.Peer                                                            *)
(* ------------------------------------------------------------------ *)
Connected == connected

Disconnect == connected' = FALSE

(* ------------------------------------------------------------------ *)
(* stallHandler: the switch on the control message                     *)
(* ------------------------------------------------------------------ *)
RECURSIVE AddInvList(_, _)
\* for _, iv := range message.InvList { pending[iv.Hash.String()] = {} }
AddInvList(pending, invList) ==
  IF invList = <<>> THEN pending
  ELSE AddInvList(pending \cup {String(Head(invList))}, Tail(invList))

\* variant: a merkle block clears every block expectation at once
PendingAfterCleared(pending, m) ==
  CASE m.kind = "getblocks" -> pending \cup {CmdInv}
    [] m.kind = "inv" -> pending \ {CmdInv}
    [] m.kind = "getdata" -> AddInvList(pending, m.invList)
    [] m.kind = "merkleblock" -> pending \cap {CmdInv}
    [] m.kind = "tx" -> pending \ {String(m.hash)}
    [] OTHER -> pending

\* variant: only the first entry of the InvList is recorded
PendingAfterFirstOnly(pending, m) ==
  CASE m.kind = "getblocks" -> pending \cup {CmdInv}
    [] m.kind = "inv" -> pending \ {CmdInv}
    [] m.kind = "getdata" ->
         IF m.invList = <<>> THEN pending
         ELSE pending \cup {String(Head(m.invList))}
    [] m.kind = "merkleblock" -> pending \ {String(m.hash)}
    [] m.kind = "tx" -> pending \ {String(m.hash)}
    [] OTHER -> pending

PendingAfter(pending, m) ==
  CASE m.kind = "getblocks" -> pending \cup {CmdInv}
    [] m.kind = "inv" -> pending \ {CmdInv}
    [] m.kind = "getdata" -> AddInvList(pending, m.invList)
    [] m.kind = "merkleblock" -> pending \ {String(m.hash)}
    [] m.kind = "tx" -> pending \ {String(m.hash)}
    [] OTHER -> pending

\* variant: only a request refreshes lastActive
TouchOnRequest(active, t, m) ==
  IF m.kind \in {"getblocks", "getdata"} THEN t ELSE active

\* variant: lastActive is refreshed when a response arrives, not on a request
TouchOnResponse(active, t, m) ==
  IF m.kind \in {"getblocks", "getdata"} THEN active ELSE t

\* lastActive = time.Now(), whatever the control message is
Touch(active, t, m) == t

\* variant: the disconnect sits in the wrong case
DisconnectsOnReject(m) == m.kind = "reject"

\* case *msg.NotFound: p.Disconnect()
DisconnectsOn(m) == m.kind = "notfound"

\* variant: After instead of !Before, the deadline itself is not a stall
StalledAfter(pending, active, t) ==
  /\ Cardinality(pending) # 0
  /\ t > active + stallResponseTimeout

\* variant: the check for pending responses is missing
StalledAnyTick(pending, active, t) == ~(t < active + stallResponseTimeout)

\* the tick branch reaches p.Disconnect()
Stalled(pending, active, t) ==
  /\ Cardinality(pending) # 0
  /\ ~(t < active + stallResponseTimeout)

\* variant: return instead of continue when nothing is pending
AfterTickReturns(pending, active, t) ==
  IF Cardinality(pending) = 0 THEN "done" ELSE "loop"

\* the tick branch ends in continue or falls out of the select: in every
\* case the loop condition is evaluated next
AfterTick(pending, active, t) == "loop"

(* ------------------------------------------------------------------ *)
(* Observers (history of the run, not program state)                   *)
(* ------------------------------------------------------------------ *)
\* request, inventory, three-block data request, merkle blocks 1 and 3
StageAfter(s, m) ==
  CASE s = "start" /\ m = GetBlocks -> "requested"
    [] s = "requested" /\ m = Inventory -> "listed"
    [] s = "listed" /\ m = GetData(ThreeBlocks) -> "asked"
    [] s = "asked" /\ m = MerkleBlock(1) -> "got1"
    [] s = "asked" /\ m = MerkleBlock(3) -> "got3"
    [] s = "got1" /\ m = MerkleBlock(3) -> "got13"
    [] s = "got3" /\ m = MerkleBlock(1) -> "got13"
    [] OTHER -> "off"

Adds(m) == m.kind \in {"getblocks", "getdata"}

\* the log of notifications, kept when the run records the wire
Noted(log, m) == IF observe = "wire" THEN Append(log, m) ELSE log

\* the key of the response the remote peer owes for each request it got
Asked(owed, m) ==
  IF observe # "wire" THEN owed
  ELSE [k \in Keys |->
          IF \/ m.kind = "getblocks" /\ k = CmdInv
             \/ /\ m.kind = "getdata"
                /\ \E i \in DOMAIN m.invList : String(m.invList[i]) = k
          THEN owed[k] + 1
          ELSE owed[k]]

\* the response the remote peer sends for a key it owes
Respond(k) ==
  IF k = CmdInv THEN Inventory
  ELSE MerkleBlock(CHOOSE h \in Hashes : String(h) = k)

\* the handler's error, kept when the run records handler results
Failure(old, failed) == IF observe = "errors" THEN failed ELSE old

TickOutcome(pending, active, added, t) ==
  IF Cardinality(pending) = 0 THEN "tickIdle"
  ELSE IF t < active + stallResponseTimeout
       THEN IF t < added + stallResponseTimeout THEN "tickEarly"
            ELSE "tickRefreshed"
       ELSE "tickStall"

(* ------------------------------------------------------------------ *)
(* Initial state: NewSPVPeer has returned, stallHandler was started    *)
(* ------------------------------------------------------------------ *)
Created ==
  /\ connected = TRUE
  /\ stallControl = <<>>
  /\ pendingResponses = {}
  /\ lastActive = ZeroTime
  /\ now = StartTime
  /\ tickReady = FALSE
  /\ detPc = "loop"
  /\ hmPc = "idle"
  /\ hmMsg = NoMsg
  /\ fired = <<>>
  /\ hmNotified = FALSE
  /\ qmPc = "idle"
  /\ qmMsg = NoMsg
  /\ qmOp = "none"
  /\ notified = FALSE
  /\ waited = FALSE
  /\ forwarded = 0
  /\ disconnects = 0
  /\ addedAt = ZeroTime
  /\ outcome = "none"
  /\ stage = "start"
  /\ calls = 0
  /\ hmFailed = FALSE
  /\ everFailed = FALSE
  /\ handed = <<>>
  /\ taken = <<>>
  /\ outstanding = [k \in Keys |-> 0]
  /\ downloading = 1
  /\ queue = [d \in Trackers |-> {}]
  /\ mutex = [d \in Trackers |-> "free"]
  /\ tPc = [t \in Tasks |-> "idle"]
  /\ tOp = [t \in Tasks |-> "none"]
  /\ tArg = [t \in Tasks |-> 0]
  /\ tRef = [t \in Tasks |-> 1]
  /\ tRes = [t \in Tasks |-> FALSE]
  /\ parked = [t \in Tasks |-> FALSE]
  /\ enqueued = [d \in Trackers |-> 0]
  /\ dequeued = [d \in Trackers |-> 0]

Init == Created /\ observe = "none"

\* the same state, the run recording handler results
InitErrors == Created /\ observe = "errors"

\* the same state, the run recording the notifications and the wire
InitWire == Created /\ observe = "wire"

(* ------------------------------------------------------------------ *)
(* stallHandler                                                        *)
(* ------------------------------------------------------------------ *)
\* variant: for { ... }, the loop condition is gone
StallLoopForever ==
  /\ detPc = "loop"
  /\ detPc' = "select"
  /\ UNCHANGED <<connected, stallControl, pendingResponses, lastActive, now,
                 tickReady, disconnects, addedAt, outcome, stage, calls, outstanding>>
  /\ UNCHANGED <<hmVars, qmVars>>
  /\ UNCHANGED <<observe, hmFailed, everFailed, handed, taken, trVars>>

\* variant: for p.Connected() || len(p.stallControl) > 0 { ... }
StallLoopWhilePending ==
  /\ detPc = "loop"
  /\ detPc' = IF Connected \/ stallControl # <<>> THEN "select" ELSE "cleanup"
  /\ UNCHANGED <<connected, stallControl, pendingResponses, lastActive, now,
                 tickReady, disconnects, addedAt, outcome, stage, calls, outstanding>>
  /\ UNCHANGED <<hmVars, qmVars>>
  /\ UNCHANGED <<observe, hmFailed, everFailed, handed, taken, trVars>>

\* for p.Connected() { ... }
StallLoop ==
  /\ detPc = "loop"
  /\ detPc' = IF Connected THEN "select" ELSE "cleanup"
  /\ UNCHANGED <<connected, stallControl, pendingResponses, lastActive, now,
                 tickReady, disconnects, addedAt, outcome, stage, calls, outstanding>>
  /\ UNCHANGED <<hmVars, qmVars>>
  /\ UNCHANGED <<observe, hmFailed, everFailed, handed, taken, trVars>>

\* case ctrMsg := <-p.stallControl:
StallRecv ==
  /\ detPc = "select"
  /\ stallControl # <<>>
  /\ LET ctrMsg == Head(stallControl) IN
       /\ stallControl' = Tail(stallControl)
       /\ lastActive' = Touch(lastActive, now, ctrMsg)
       /\ pendingResponses' = PendingAfter(pendingResponses, ctrMsg)
       /\ IF DisconnectsOn(ctrMsg)
          THEN Disconnect /\ disconnects' = disconnects + 1
          ELSE UNCHANGED <<connected, disconnects>>
       /\ addedAt' = IF Adds(ctrMsg) THEN now ELSE addedAt
       /\ stage' = StageAfter(stage, ctrMsg)
  /\ outcome' = "recv"
  /\ detPc' = "loop"
  /\ UNCHANGED <<now, tickReady, calls, outstanding>>
  /\ UNCHANGED <<hmVars, qmVars>>
  /\ taken' = Noted(taken, Head(stallControl))
  /\ UNCHANGED <<observe, hmFailed, everFailed, handed, trVars>>

\* case <-stallTicker.C:
StallTick ==
  /\ detPc = "select"
  /\ tickReady
  /\ tickReady' = FALSE
  /\ IF Stalled(pendingResponses, lastActive, now)
     THEN Disconnect /\ disconnects' = disconnects + 1
     ELSE UNCHANGED <<connected, disconnects>>
  /\ outcome' = TickOutcome(pendingResponses, lastActive, addedAt, now)
  /\ detPc' = AfterTick(pendingResponses, lastActive, now)
  /\ UNCHANGED <<stallControl, pendingResponses, lastActive, now, addedAt,
                 stage, calls, outstanding>>
  /\ UNCHANGED <<hmVars, qmVars>>
  /\ UNCHANGED <<observe, hmFailed, everFailed, handed, taken, trVars>>

\* cleanup: case <-p.stallControl:
DrainRecv ==
  /\ detPc = "cleanup"
  /\ stallControl # <<>>
  /\ stallControl' = Tail(stallControl)
  /\ UNCHANGED <<connected, now, tickReady, calls, outstanding>>
  /\ UNCHANGED <<detVars, hmVars, qmVars>>
  /\ UNCHANGED <<observe, hmFailed, everFailed, handed, taken, trVars>>

\* cleanup: default: break cleanup
DrainDone ==
  /\ detPc = "cleanup"
  /\ stallControl = <<>>
  /\ detPc' = "done"
  /\ UNCHANGED <<connected, stallControl, pendingResponses, lastActive, now,
                 tickReady, disconnects, addedAt, outcome, stage, calls, outstanding>>
  /\ UNCHANGED <<hmVars, qmVars>>
  /\ UNCHANGED <<observe, hmFailed, everFailed, handed, taken, trVars>>

(* ------------------------------------------------------------------ *)
(* HandleMessage: inbound dispatch, on the transport's task            *)
(* ------------------------------------------------------------------ *)
\* the transport delivers message; the callback is at its channel send
HandleMessage(message) ==
  /\ hmPc = "idle"
  /\ Connected
  /\ hmPc' = "notify"
  /\ hmMsg' = message
  /\ fired' = <<>>
  /\ hmNotified' = FALSE
  /\ UNCHANGED <<connected, stallControl, now, tickReady>>
  /\ UNCHANGED <<detVars, qmVars>>
  /\ everFailed' = (everFailed \/ hmFailed)
  /\ hmFailed' = FALSE
  /\ UNCHANGED <<observe, handed, taken, trVars>>

\* spvPeer.stallControl <- message
\* variant: a send that finds the channel full gives the message up
HandleNotifyDrops ==
  /\ hmPc = "notify"
  /\ stallControl' = IF Len(stallControl) < StallControlCap
                     THEN Append(stallControl, hmMsg)
                     ELSE stallControl
  /\ hmPc' = "route"
  /\ hmNotified' = TRUE
  /\ UNCHANGED <<connected, now, tickReady, hmMsg, fired, calls, outstanding>>
  /\ UNCHANGED <<detVars, qmVars>>
  /\ handed' = Noted(handed, hmMsg)
  /\ UNCHANGED <<observe, hmFailed, everFailed, taken, trVars>>

HandleNotify ==
  /\ hmPc = "notify"
  /\ Len(stallControl) < StallControlCap
  /\ stallControl' = Append(stallControl, hmMsg)
  /\ hmPc' = "route"
  /\ hmNotified' = TRUE
  /\ UNCHANGED <<connected, now, tickReady, hmMsg, fired, calls, outstanding>>
  /\ UNCHANGED <<detVars, qmVars>>
  /\ handed' = Noted(handed, hmMsg)
  /\ UNCHANGED <<observe, hmFailed, everFailed, taken, trVars>>

\* variant: the inventory case falls through to the merkle block case
HandlersFallthrough(m) ==
  CASE m.kind = "inv" -> <<"OnInventory", "OnMerkleBlock">>
    [] m.kind = "merkleblock" -> <<"OnMerkleBlock">>
    [] m.kind = "tx" -> <<"OnTx">>
    [] m.kind = "notfound" -> <<"OnNotFound">>
    [] m.kind = "reject" -> <<"OnReject">>
    [] OTHER -> <<>>

\* switch m := message.(type): the handlers the dispatch invokes
Handlers(m) ==
  CASE m.kind = "inv" -> <<"OnInventory">>
    [] m.kind = "merkleblock" -> <<"OnMerkleBlock">>
    [] m.kind = "tx" -> <<"OnTx">>
    [] m.kind = "notfound" -> <<"OnNotFound">>
    [] m.kind = "reject" -> <<"OnReject">>
    [] OTHER -> <<>>

\* variant: a failed handler ends the dispatching
AfterHandlerAborts(failed) == IF failed THEN "aborted" ELSE "idle"

\* the value the handler returns is dropped: the callback returns
AfterHandler(failed) == "idle"

HandleRoute ==
  /\ hmPc = "route"
  /\ fired' = fired \o Handlers(hmMsg)
  /\ \E failed \in BOOLEAN :
       /\ hmFailed' = Failure(hmFailed, Handlers(hmMsg) # <<>> /\ failed)
       /\ hmPc' = AfterHandler(Handlers(hmMsg) # <<>> /\ failed)
  /\ hmMsg' = NoMsg
  /\ UNCHANGED <<connected, stallControl, now, tickReady, hmNotified, calls, outstanding>>
  /\ UNCHANGED <<detVars, qmVars>>
  /\ UNCHANGED <<observe, everFailed, handed, taken, trVars>>

(* ------------------------------------------------------------------ *)
(* QueueMessage and StallMessage, on the session owner's task          *)
(* ------------------------------------------------------------------ *)
\* variant: case *msg.GetBlocks: only
\* variant: only get-data is sent to the channel
ExpectsDataOnly(message) == message.kind = "getdata"

ExpectsBlocksOnly(message) == message.kind = "getblocks"

\* case *msg.GetBlocks, *msg.GetData:
Expects(message) == message.kind \in {"getblocks", "getdata"}

QueueMessage(message) ==
  /\ qmPc = "idle"
  /\ qmOp' = "QueueMessage"
  /\ qmMsg' = message
  /\ qmPc' = IF Expects(message) THEN "notify" ELSE "forward"
  /\ notified' = FALSE
  /\ waited' = (Len(stallControl) = StallControlCap)
  /\ forwarded' = 0
  /\ UNCHANGED <<connected, stallControl, now, tickReady>>
  /\ UNCHANGED <<detVars, hmVars>>
  /\ UNCHANGED <<observe, hmFailed, everFailed, handed, taken, trVars>>

StallMessage(message) ==
  /\ qmPc = "idle"
  /\ qmOp' = "StallMessage"
  /\ qmMsg' = message
  /\ qmPc' = "notify"
  /\ notified' = FALSE
  /\ waited' = (Len(stallControl) = StallControlCap)
  /\ forwarded' = 0
  /\ UNCHANGED <<connected, stallControl, now, tickReady>>
  /\ UNCHANGED <<detVars, hmVars>>
  /\ UNCHANGED <<observe, hmFailed, everFailed, handed, taken, trVars>>

\* p.stallControl <- message
QueueNotify ==
  /\ qmPc = "notify"
  /\ Len(stallControl) < StallControlCap
  /\ stallControl' = Append(stallControl, qmMsg)
  /\ notified' = TRUE
  /\ IF qmOp = "QueueMessage"
     THEN qmPc' = "forward" /\ UNCHANGED <<qmMsg, qmOp>>
     ELSE qmPc' = "idle" /\ qmMsg' = NoMsg /\ qmOp' = "none"
  /\ UNCHANGED <<connected, now, tickReady, waited, forwarded, calls, outstanding>>
  /\ UNCHANGED <<detVars, hmVars>>
  /\ handed' = Noted(handed, qmMsg)
  /\ UNCHANGED <<observe, hmFailed, everFailed, taken, trVars>>

\* p.Peer.QueueMessage(message, doneChan)
QueueForward ==
  /\ qmPc = "forward"
  /\ forwarded' = forwarded + 1
  /\ qmPc' = "idle"
  /\ qmMsg' = NoMsg
  /\ qmOp' = "none"
  /\ UNCHANGED <<connected, stallControl, now, tickReady, notified, waited,
                 calls>>
  /\ UNCHANGED <<detVars, hmVars>>
  /\ outstanding' = Asked(outstanding, qmMsg)
  /\ UNCHANGED <<observe, hmFailed, everFailed, handed, taken, trVars>>

(* ------------------------------------------------------------------ *)
(* Environment: the clock, the ticker, the transport                   *)
(* ------------------------------------------------------------------ *)
Ticks(t) == (t - StartTime) \div stallTickInterval

\* time passes; the ticker puts a tick in its channel at each interval
Advance ==
  /\ now + TimeStep <= MaxTime
  /\ now' = now + TimeStep
  /\ tickReady' = (tickReady \/ Ticks(now') > Ticks(now))
  /\ UNCHANGED <<connected, stallControl, calls, outstanding>>
  /\ UNCHANGED <<detVars, hmVars, qmVars>>
  /\ UNCHANGED <<observe, hmFailed, everFailed, handed, taken, trVars>>

\* past the horizon the clock is no longer read, the ticker keeps firing
TickerFires ==
  /\ now + TimeStep > MaxTime
  /\ ~tickReady
  /\ tickReady' = TRUE
  /\ UNCHANGED <<connected, stallControl, now, calls, outstanding>>
  /\ UNCHANGED <<detVars, hmVars, qmVars>>
  /\ UNCHANGED <<observe, hmFailed, everFailed, handed, taken, trVars>>

\* the connection is closed by the remote peer or the peer manager
ConnectionLost ==
  /\ connected
  /\ Disconnect
  /\ UNCHANGED <<stallControl, now, tickReady, calls, outstanding>>
  /\ UNCHANGED <<detVars, hmVars, qmVars>>
  /\ UNCHANGED <<observe, hmFailed, everFailed, handed, taken, trVars>>

(* ------------------------------------------------------------------ *)
(* downloadTx, downloadBlock, ResetDownloading                         *)
(* ------------------------------------------------------------------ *)

TxOps == {"downloadTx.queueTx", "downloadTx.dequeueTx"}

BlockOps ==
  {"downloadBlock.enqueueTx", "downloadBlock.dequeueTx",
   "downloadBlock.finished"}

Inserts == {"downloadTx.queueTx", "downloadBlock.enqueueTx"}

Removes == {"downloadTx.dequeueTx", "downloadBlock.dequeueTx"}

\* the tracker a call works on: the receiver of the method
Target(t) == IF tOp[t] \in TxOps THEN DownloadTx ELSE tRef[t]

\* What a read of p.downloading can return. The field is written by
\* ResetDownloading and read by the callers of the block tracker with no
\* lock and no other ordering between them, so a read returns the current
\* pointer or an older one, never one older than the task has seen.
Readable(t) == tRef[t] .. downloading

\* variant: Lock returns whoever holds the mutex
LockFreeAlways(m) == TRUE

\* sync.Mutex: Lock returns when nobody holds the mutex
LockFree(m) == m = "free"

\* variant: dequeueTx leaves the map as it is
RemovedNone(q, txId) == q

\* delete(d.queue, txId), delete(d.txQueue, txId)
Removed(q, txId) == q \ {txId}

\* variant: finished looks at a collection that is always empty
FinishedTxs(q) == TRUE

\* len(d.txQueue) == 0
FinishedResult(q) == Cardinality(q) = 0

\* a task calls a method of a tracker, or ResetDownloading
Begin(t, op, txId) ==
  /\ tPc[t] = "idle"
  /\ calls < MaxOps
  /\ calls' = calls + 1
  /\ tOp' = [tOp EXCEPT ![t] = op]
  /\ tArg' = [tArg EXCEPT ![t] = txId]
  /\ tRes' = [tRes EXCEPT ![t] = FALSE]
  /\ parked' = [parked EXCEPT ![t] = FALSE]
  /\ tPc' = [tPc EXCEPT ![t] =
               IF op = "ResetDownloading" THEN "store"
               ELSE IF op \in BlockOps THEN "load"
               ELSE "lock"]
  /\ UNCHANGED <<downloading, queue, mutex, tRef, enqueued, dequeued>>
  /\ UNCHANGED peerVars

CallTx(t) == \E op \in TxOps : \E txId \in TxIds : Begin(t, op, txId)

CallBlock(t) ==
  \/ \E op \in BlockOps \ {"downloadBlock.finished"} :
       \E txId \in TxIds : Begin(t, op, txId)
  \/ Begin(t, "downloadBlock.finished", 0)

\* bounded: the resets begun stay within the MaxTrackers block trackers
CallReset(t) ==
  /\ downloading + Cardinality({u \in Tasks : tPc[u] = "store"}) < MaxTrackers
  /\ Begin(t, "ResetDownloading", 0)

\* the caller evaluates p.downloading, the receiver of the method
Load(t) ==
  /\ tPc[t] = "load"
  /\ \E d \in Readable(t) : tRef' = [tRef EXCEPT ![t] = d]
  /\ tPc' = [tPc EXCEPT ![t] = "lock"]
  /\ UNCHANGED <<downloading, queue, mutex, tOp, tArg, tRes, parked,
                 enqueued, dequeued>>
  /\ UNCHANGED <<peerVars, calls>>

\* d.mutex.Lock() finds the mutex held and waits
Park(t) ==
  /\ tPc[t] = "lock"
  /\ mutex[Target(t)] # "free"
  /\ ~parked[t]
  /\ parked' = [parked EXCEPT ![t] = TRUE]
  /\ UNCHANGED <<downloading, queue, mutex, tPc, tOp, tArg, tRef, tRes,
                 enqueued, dequeued>>
  /\ UNCHANGED <<peerVars, calls>>

\* d.mutex.Lock() returns
Lock(t) ==
  /\ tPc[t] = "lock"
  /\ LockFree(mutex[Target(t)])
  /\ mutex' = [mutex EXCEPT ![Target(t)] = t]
  /\ tPc' = [tPc EXCEPT ![t] = "body"]
  /\ UNCHANGED <<downloading, queue, tOp, tArg, tRef, tRes, parked,
                 enqueued, dequeued>>
  /\ UNCHANGED <<peerVars, calls>>

\* d.queue[txId] = struct{}{}, d.txQueue[txId] = struct{}{}
Enqueue(t) ==
  /\ tPc[t] = "body"
  /\ tOp[t] \in Inserts
  /\ LET d == Target(t) IN
       /\ queue' = [queue EXCEPT ![d] = @ \cup {tArg[t]}]
       /\ enqueued' = [enqueued EXCEPT ![d] =
                         IF tArg[t] \in queue[d] THEN @ ELSE @ + 1]
  /\ tPc' = [tPc EXCEPT ![t] = "unlock"]
  /\ UNCHANGED <<downloading, mutex, tOp, tArg, tRef, tRes, parked,
                 dequeued>>
  /\ UNCHANGED <<peerVars, calls>>

\* _, ok := d.queue[txId]; if !ok { return false }
DequeueLookup(t) ==
  /\ tPc[t] = "body"
  /\ tOp[t] \in Removes
  /\ LET ok == tArg[t] \in queue[Target(t)] IN
       /\ tRes' = [tRes EXCEPT ![t] = ok]
       /\ tPc' = [tPc EXCEPT ![t] = IF ok THEN "delete" ELSE "unlock"]
  /\ UNCHANGED <<downloading, queue, mutex, tOp, tArg, tRef, parked,
                 enqueued, dequeued>>
  /\ UNCHANGED <<peerVars, calls>>

\* delete(d.queue, txId); return true
DequeueDelete(t) ==
  /\ tPc[t] = "delete"
  /\ LET d == Target(t) IN
       /\ queue' = [queue EXCEPT ![d] = Removed(@, tArg[t])]
       /\ dequeued' = [dequeued EXCEPT ![d] = @ + 1]
  /\ tPc' = [tPc EXCEPT ![t] = "unlock"]
  /\ UNCHANGED <<downloading, mutex, tOp, tArg, tRef, tRes, parked,
                 enqueued>>
  /\ UNCHANGED <<peerVars, calls>>

\* return len(d.txQueue) == 0
Finished(t) ==
  /\ tPc[t] = "body"
  /\ tOp[t] = "downloadBlock.finished"
  /\ tRes' = [tRes EXCEPT ![t] = FinishedResult(queue[Target(t)])]
  /\ tPc' = [tPc EXCEPT ![t] = "unlock"]
  /\ UNCHANGED <<downloading, queue, mutex, tOp, tArg, tRef, parked,
                 enqueued, dequeued>>
  /\ UNCHANGED <<peerVars, calls>>

\* the deferred d.mutex.Unlock(), and the return
Unlock(t) ==
  /\ tPc[t] = "unlock"
  /\ mutex' = [mutex EXCEPT ![Target(t)] =
                 IF @ = t THEN "free" ELSE @]
  /\ tPc' = [tPc EXCEPT ![t] = "idle"]
  /\ UNCHANGED <<downloading, queue, tOp, tArg, tRef, tRes, parked,
                 enqueued, dequeued>>
  /\ UNCHANGED <<peerVars, calls>>

\* p.downloading = newDownloadBlock()
ResetDownloading(t) ==
  /\ tPc[t] = "store"
  /\ downloading' = downloading + 1
  /\ tRef' = [tRef EXCEPT ![t] = downloading + 1]
  /\ tPc' = [tPc EXCEPT ![t] = "idle"]
  /\ UNCHANGED <<queue, mutex, tOp, tArg, tRes, parked, enqueued, dequeued>>
  /\ UNCHANGED <<peerVars, calls>>

(* ------------------------------------------------------------------ *)
(* Specifications                                                      *)
(* ------------------------------------------------------------------ *)
\* Spec: the synchronisation traffic of one peer, against the clock
SyncIn == {Inventory, NotFound, Other, MerkleBlock(1), MerkleBlock(3)}

SyncOut == {GetBlocks, GetData(ThreeBlocks)}

Inbound == \E m \in SyncIn : HandleMessage(m) /\ UNCHANGED <<calls, outstanding>>

Send == \E m \in SyncOut : QueueMessage(m) /\ UNCHANGED <<calls, outstanding>>

Next ==
  \/ StallLoop
  \/ StallRecv
  \/ StallTick
  \/ DrainRecv
  \/ DrainDone
  \/ Inbound
  \/ HandleNotify
  \/ HandleRoute
  \/ Send
  \/ QueueNotify
  \/ QueueForward
  \/ Advance
  \/ ConnectionLost

Spec == Init /\ [][Next]_vars

\* SpecDispatch: every message kind through both entry points; the clock
\* stands still, so no tick fires
InboundAny == \E m \in InMsgs : HandleMessage(m) /\ UNCHANGED <<calls, outstanding>>

SendAny == \E m \in OutMsgs : QueueMessage(m) /\ UNCHANGED <<calls, outstanding>>

Notice == \E m \in NoticeMsgs : StallMessage(m) /\ UNCHANGED <<calls, outstanding>>

NextDispatch ==
  \/ StallLoop
  \/ StallRecv
  \/ DrainRecv
  \/ DrainDone
  \/ InboundAny
  \/ HandleNotify
  \/ HandleRoute
  \/ SendAny
  \/ Notice
  \/ QueueNotify
  \/ QueueForward
  \/ ConnectionLost

SpecDispatch == Init /\ [][NextDispatch]_vars

\* Inbound dispatch alone, every handler free to fail: the receiving task
\* delivers any message, the detector runs, the connection can be lost.
NextHandlers ==
  \/ StallLoop
  \/ StallRecv
  \/ DrainRecv
  \/ DrainDone
  \/ InboundAny
  \/ HandleNotify
  \/ HandleRoute
  \/ ConnectionLost

SpecHandlers == InitErrors /\ [][NextHandlers]_vars

\* Requests and their responses: the owner sends requests, the remote peer
\* answers only what was forwarded to it, at most once per request, and
\* also sends messages nobody asked for; the runs are bounded by MaxWire.
WireOut == {GetBlocks, GetData(<<1, 2>>)}

InboundWire ==
  /\ calls < MaxWire
  /\ calls' = calls + 1
  /\ \/ HandleMessage(Other) /\ UNCHANGED outstanding
     \/ \E k \in Keys :
          /\ outstanding[k] > 0
          /\ HandleMessage(Respond(k))
          /\ outstanding' = [outstanding EXCEPT ![k] = @ - 1]

SendWire ==
  /\ calls < MaxWire
  /\ calls' = calls + 1
  /\ \E m \in WireOut : QueueMessage(m)
  /\ UNCHANGED outstanding

NoticeWire ==
  /\ calls < MaxWire
  /\ calls' = calls + 1
  /\ \E m \in NoticeMsgs : StallMessage(m)
  /\ UNCHANGED outstanding

NextWire ==
  \/ StallLoop
  \/ StallRecv
  \/ DrainRecv
  \/ DrainDone
  \/ InboundWire
  \/ HandleNotify
  \/ HandleRoute
  \/ SendWire
  \/ NoticeWire
  \/ QueueNotify
  \/ QueueForward
  \/ ConnectionLost

SpecWire == InitWire /\ [][NextWire]_vars

\* The trackers: two tasks call the methods of downloadTx and of the
\* current downloadBlock, and ResetDownloading, in every interleaving;
\* the runs are bounded by MaxOps.
NextTracker ==
  \/ \E t \in Tasks : CallTx(t)
  \/ \E t \in Tasks : CallBlock(t)
  \/ \E t \in Tasks : CallReset(t)
  \/ \E t \in Tasks : Load(t)
  \/ \E t \in Tasks : Park(t)
  \/ \E t \in Tasks : Lock(t)
  \/ \E t \in Tasks : Enqueue(t)
  \/ \E t \in Tasks : DequeueLookup(t)
  \/ \E t \in Tasks : DequeueDelete(t)
  \/ \E t \in Tasks : Finished(t)
  \/ \E t \in Tasks : Unlock(t)
  \/ \E t \in Tasks : ResetDownloading(t)

SpecTracker == Init /\ [][NextTracker]_vars

\* SpecFair: a bounded number of calls, a ticker that never stops, and the
\* scheduling the Go runtime gives: every runnable goroutine runs, a blocked
\* channel send completes once there is room, select picks among its ready
\* cases at random
InboundFair ==
  /\ calls < MaxCalls
  /\ calls' = calls + 1
  /\ \E m \in FairInMsgs : HandleMessage(m)
  /\ UNCHANGED outstanding

SendFair ==
  /\ calls < MaxCalls
  /\ calls' = calls + 1
  /\ \E m \in FairOutMsgs : QueueMessage(m)
  /\ UNCHANGED outstanding

NoticeFair ==
  /\ calls < MaxCalls
  /\ calls' = calls + 1
  /\ \E m \in NoticeMsgs : StallMessage(m)
  /\ UNCHANGED outstanding

NextFair ==
  \/ StallLoop
  \/ StallRecv
  \/ StallTick
  \/ DrainRecv
  \/ DrainDone
  \/ InboundFair
  \/ HandleNotify
  \/ HandleRoute
  \/ SendFair
  \/ NoticeFair
  \/ QueueNotify
  \/ QueueForward
  \/ Advance
  \/ TickerFires
  \/ ConnectionLost

Fairness ==
  /\ WF_vars(StallLoop)
  /\ SF_vars(StallRecv)
  /\ WF_vars(StallTick)
  /\ WF_vars(DrainRecv)
  /\ WF_vars(DrainDone)
  /\ WF_vars(HandleNotify)
  /\ WF_vars(HandleRoute)
  /\ WF_vars(QueueNotify)
  /\ WF_vars(QueueForward)
  /\ WF_vars(Advance)
  /\ WF_vars(TickerFires)

SpecFair == Init /\ [][NextFair]_vars /\ Fairness

(* ------------------------------------------------------------------ *)
(* Properties                                                          *)
(* ------------------------------------------------------------------ *)
\* the step in which stallHandler's loop takes a tick from the ticker
TickStep == tickReady /\ ~tickReady'

\* the step in which stallHandler's loop takes a control message
RecvStep ==
  /\ detPc = "select"
  /\ stallControl # <<>>
  /\ stallControl' = Tail(stallControl)

\* the step in which anything takes a control message from the channel
TakeStep == stallControl # <<>> /\ stallControl' = Tail(stallControl)

Deadline == lastActive + stallResponseTimeout

\* C1: a tick disconnects the peer exactly when pendingResponses is
\* non-empty and now >= lastActive + stallResponseTimeout; any other tick
\* leaves the connection, pendingResponses and lastActive as they were.
C1_TickDisconnectsIffStalled ==
  [][TickStep =>
       IF pendingResponses # {} /\ now >= Deadline
       THEN ~connected' /\ disconnects' = disconnects + 1
       ELSE /\ connected' = connected
            /\ disconnects' = disconnects
            /\ pendingResponses' = pendingResponses
            /\ lastActive' = lastActive]_vars

\* a tick at or after the deadline, with an expectation pending, has
\* disconnected the peer
C1_Witness ==
  /\ outcome = "tickStall"
  /\ detPc = "loop"
  /\ ~connected
  /\ disconnects = 1
  /\ pendingResponses # {}

\* C2: taking a not-found message from the channel leaves the peer
\* disconnected at the end of that same iteration, whatever
\* pendingResponses and lastActive are; when the loop takes it,
\* stallHandler itself calls Disconnect and goes to its loop condition.
C2_NotFoundDisconnects ==
  [][/\ TakeStep /\ Head(stallControl).kind = "notfound" => ~connected'
     /\ RecvStep /\ Head(stallControl).kind = "notfound"
          => disconnects' = disconnects + 1 /\ detPc' = "loop"]_vars

\* a not-found was processed with nothing pending and disconnected the peer
C2_Witness ==
  /\ outcome = "recv"
  /\ detPc = "loop"
  /\ disconnects = 1
  /\ ~connected
  /\ pendingResponses = {}

\* C3 as stated: stallHandler calls Disconnect only with an expectation
\* pending and the clock past lastActive + stallResponseTimeout.
C3_DisconnectOnlyWhenStalled ==
  [][disconnects' > disconnects =>
       pendingResponses # {} /\ now > Deadline]_vars

\* C3 amended: stallHandler calls Disconnect only in two cases: on a tick
\* with an expectation pending and now >= lastActive + stallResponseTimeout,
\* or on taking a not-found message (then unconditionally).
C3_DisconnectOnlyStalledOrNotFound ==
  [][disconnects' > disconnects =>
       \/ TickStep /\ pendingResponses # {} /\ now >= Deadline
       \/ RecvStep /\ Head(stallControl).kind = "notfound"]_vars

\* a tick disconnected the peer exactly at the deadline
C3_Witness ==
  /\ outcome = "tickStall"
  /\ disconnects = 1
  /\ now = Deadline
  /\ pendingResponses # {}

\* C4: every control message taken by the loop sets lastActive to the
\* current time, and the tick measures the timeout from lastActive alone:
\* with an expectation pending it leaves the peer connected before
\* lastActive + stallResponseTimeout, however old the expectation is, and
\* disconnects from then on.
C4_TrafficRestartsTimeout ==
  [][/\ RecvStep => lastActive' = now
     /\ TickStep /\ pendingResponses # {} /\ now < Deadline
          => connected' = connected /\ disconnects' = disconnects
     /\ TickStep /\ pendingResponses # {} /\ now >= Deadline
          => ~connected']_vars

\* a tick found an expectation older than the timeout and did not
\* disconnect, because later traffic had refreshed lastActive
C4_Witness ==
  /\ outcome = "tickRefreshed"
  /\ detPc = "loop"
  /\ connected
  /\ disconnects = 0
  /\ pendingResponses # {}
  /\ lastActive > addedAt

\* pendingResponses at each stage of the three-block scenario
StagePending ==
  CASE stage = "requested" -> {CmdInv}
    [] stage = "listed" -> {}
    [] stage = "asked" -> {"h1", "h2", "h3"}
    [] stage = "got1" -> {"h2", "h3"}
    [] stage = "got3" -> {"h1", "h2"}
    [] stage = "got13" -> {"h2"}
    [] OTHER -> pendingResponses

\* C5: when the notifications processed so far are a block request, its
\* inventory, a data request for blocks 1, 2, 3 and the merkle blocks 1
\* and 3 in either order, pendingResponses goes {inv}, {}, {h1,h2,h3},
\* then {h2}; a tick at or after the deadline with h2 pending disconnects.
C5_ThreeBlockScenario ==
  /\ [](pendingResponses = StagePending)
  /\ [][TickStep /\ stage = "got13" /\ now >= Deadline => ~connected']_vars

\* the scenario ran to its end: h2 alone is pending and the tick
\* disconnected the peer
C5_Witness ==
  /\ stage = "got13"
  /\ pendingResponses = {"h2"}
  /\ outcome = "tickStall"
  /\ disconnects = 1
  /\ ~connected

\* C6: once stallHandler has returned, no caller is left at its channel
\* send with the channel full (nothing receives any more, so such a caller
\* never returns).
C6_NoSenderLeftBlocked ==
  ~(/\ detPc = "done"
    /\ Len(stallControl) = StallControlCap
    /\ (hmPc = "notify" \/ qmPc = "notify"))

\* C7: stallHandler leaves its loop only when the peer is disconnected,
\* and once the peer is disconnected it returns.
C7_RunsWhileConnected ==
  /\ [](detPc \in {"cleanup", "done"} => ~connected)
  /\ (~connected) ~> (detPc = "done")

\* stallHandler returned after the connection was lost from outside
C7_Witness == detPc = "done" /\ ~connected /\ disconnects = 0

\* the handler the configuration registers for a message kind
Registered(kind) ==
  CASE kind = "inv" -> <<"OnInventory">>
    [] kind = "merkleblock" -> <<"OnMerkleBlock">>
    [] kind = "tx" -> <<"OnTx">>
    [] kind = "notfound" -> <<"OnNotFound">>
    [] kind = "reject" -> <<"OnReject">>
    [] OTHER -> <<>>

\* C8: a dispatch invokes handlers only after its channel send, and when
\* it returns it has invoked the handler registered for the message's
\* kind once and no other, or none for a kind without a handler.
C8_NotifyThenRoute ==
  /\ [](fired # <<>> => hmNotified)
  /\ [][hmPc # "idle" /\ hmPc' = "idle" =>
          hmNotified /\ fired' = Registered(hmMsg.kind)]_vars

\* an inventory message was notified and then routed to OnInventory
C8_Witness ==
  /\ hmPc = "idle"
  /\ hmNotified
  /\ fired = <<"OnInventory">>

\* C9: QueueMessage hands the message to Peer.QueueMessage once, as its
\* last step; by then it has sent a get-blocks or get-data message to the
\* channel, and has sent no other kind of message to it.
C9_NotifyThenForward ==
  /\ [](forwarded > 0 => qmPc = "idle")
  /\ [][qmOp = "QueueMessage" /\ qmPc' = "idle" =>
          /\ forwarded = 0
          /\ forwarded' = 1
          /\ notified = (qmMsg.kind \in {"getblocks", "getdata"})
          /\ notified' = notified]_vars

\* a data request was notified to the detector and then forwarded
C9_Witness ==
  /\ qmPc = "idle"
  /\ forwarded = 1
  /\ notified
  /\ "h2" \in pendingResponses

\* C10: a caller at its channel send gets past it, unless the peer is
\* disconnected meanwhile.
C10_NotifyReturns ==
  /\ (hmPc = "notify") ~> (hmPc # "notify" \/ ~connected)
  /\ (qmPc = "notify") ~> (qmPc # "notify" \/ ~connected)

\* a call that found the channel full has returned, the peer still
\* connected and stallHandler still in its loop
C10_Witness ==
  /\ qmPc = "idle"
  /\ waited
  /\ notified
  /\ connected
  /\ detPc \in {"loop", "select"}

\* C11: a handler that fails does not abort the dispatch: the dispatch of
\* the failing message returns, and every later inbound message is still
\* notified to the stall detector and routed to the handler registered
\* for its kind, as after a success.
C11_FailureKeepsDispatching ==
  /\ [](hmPc \in {"idle", "notify", "route"})
  /\ [][hmPc = "route" /\ hmPc' # "route" => hmPc' = "idle"]_vars
  /\ [][hmPc = "idle" /\ hmFailed /\ connected =>
          \A m \in InMsgs :
            ENABLED (HandleMessage(m) /\ UNCHANGED <<calls, outstanding>>)]_vars
  /\ [][(everFailed \/ hmFailed) /\ hmPc = "notify" /\ hmPc' # "notify" =>
          /\ hmPc' = "route"
          /\ hmNotified'
          /\ stallControl' = Append(stallControl, hmMsg)]_vars
  /\ [][(everFailed \/ hmFailed) /\ hmPc = "route" /\ hmPc' # "route" =>
          hmNotified /\ fired' = Registered(hmMsg.kind)]_vars

\* after a dispatch whose handler failed, a transaction message was
\* notified and routed to OnTx
C11_Witness ==
  /\ everFailed
  /\ ~hmFailed
  /\ hmPc = "idle"
  /\ hmNotified
  /\ fired = <<"OnTx">>

\* the task is inside the critical section of the tracker it works on
Inside(t) == tPc[t] \in {"body", "delete", "unlock"}

\* the task takes the step of its call that reads or writes the set
Effect(t) == tPc[t] \in {"body", "delete"} /\ tPc'[t] # tPc[t]

\* C12: ResetDownloading replaces the block tracker atomically with
\* respect to the calls issued through the session: every enqueue,
\* dequeue or finished acts on the tracker that is the session's current
\* one at that moment, never on a replaced one.
C12_ResetIsAtomic ==
  [][\A t \in Tasks :
       tOp[t] \in BlockOps /\ Effect(t) => tRef[t] = downloading]_vars

\* C13: a tracker holds as many identifiers as were enqueued while absent
\* minus those dequeued; dequeueTx of an absent identifier returns false
\* and changes nothing, dequeueTx of a present one returns true and
\* removes that identifier and no other.
C13_SizeIsEnqueuedMinusDequeued ==
  /\ [](\A d \in Trackers :
          Cardinality(queue[d]) = enqueued[d] - dequeued[d])
  /\ [][\A t \in Tasks :
          tOp[t] \in Removes /\ tPc[t] = "body" /\ tPc'[t] # "body" =>
            IF tArg[t] \in queue[Target(t)]
            THEN tRes'[t] /\ tPc'[t] = "delete"
            ELSE ~tRes'[t] /\ tPc'[t] = "unlock" /\ queue' = queue]_vars
  /\ [][\A t \in Tasks :
          tPc[t] = "delete" /\ tPc'[t] # "delete" =>
            /\ tRes'[t]
            /\ tArg[t] \in queue[Target(t)]
            /\ queue' = [queue EXCEPT ![Target(t)] = @ \ {tArg[t]}]]_vars
  /\ [][\A t \in Tasks :
          tOp[t] \in Removes /\ tPc[t] = "unlock" /\ tPc'[t] = "idle" =>
            tRes'[t] = tRes[t] /\ tArg[t] \notin queue'[Target(t)]]_vars

\* of two identifiers queued in downloadTx one was dequeued, and a second
\* dequeueTx of it returned false: one identifier is left
C13_Witness ==
  /\ enqueued[DownloadTx] = 2
  /\ dequeued[DownloadTx] = 1
  /\ queue[DownloadTx] = {2}
  /\ \E t \in Tasks :
       /\ tPc[t] = "idle"
       /\ tOp[t] = "downloadTx.dequeueTx"
       /\ tArg[t] = 1
       /\ ~tRes[t]

\* C14: finished returns true exactly when the tracker's set is empty at
\* that moment, that is when every identifier enqueued in it has been
\* dequeued, and it changes nothing.
C14_FinishedIffEmpty ==
  /\ [][\A t \in Tasks :
          tOp[t] = "downloadBlock.finished" /\ Effect(t) =>
            /\ tRes'[t] <=> queue[Target(t)] = {}
            /\ tRes'[t] <=> enqueued[Target(t)] = dequeued[Target(t)]
            /\ queue' = queue]_vars
  /\ [](\A t \in Tasks :
          tOp[t] = "downloadBlock.finished" /\ tPc[t] = "unlock" =>
            (tRes[t] <=> queue[Target(t)] = {}))

\* finished returned true on a block tracker whose one identifier was
\* enqueued and then dequeued
C14_Witness ==
  \E t \in Tasks :
    /\ tPc[t] = "idle"
    /\ tOp[t] = "downloadBlock.finished"
    /\ tRes[t]
    /\ enqueued[tRef[t]] = 1
    /\ dequeued[tRef[t]] = 1

\* C15: stallHandler calls Disconnect at most once; from then on the peer
\* stays disconnected, stallHandler is on its way out (loop condition,
\* drain, returned) and neither pendingResponses nor lastActive changes.
C15_DisconnectIsTerminal ==
  /\ [](disconnects <= 1)
  /\ [](disconnects >= 1 =>
          ~connected /\ detPc \in {"loop", "cleanup", "done"})
  /\ [][disconnects >= 1 =>
          /\ pendingResponses' = pendingResponses
          /\ lastActive' = lastActive
          /\ connected' = connected]_vars

\* stallHandler disconnected and returned; a notification handed over
\* afterwards stays in the channel unprocessed
C15_Witness ==
  /\ disconnects = 1
  /\ detPc = "done"
  /\ stallControl # <<>>
  /\ ~connected

\* the keys of a data request
InvKeys(l) == {String(l[i]) : i \in DOMAIN l}

\* pendingResponses after one notification, as the claim states it
Expected(pending, m) ==
  CASE m.kind = "getblocks" -> pending \cup {CmdInv}
    [] m.kind = "inv" -> pending \ {CmdInv}
    [] m.kind = "getdata" -> pending \cup InvKeys(m.invList)
    [] m.kind \in {"merkleblock", "tx"} -> pending \ {String(m.hash)}
    [] OTHER -> pending

\* C16: a notification taken by the loop changes pendingResponses as its
\* kind says (get-blocks adds the inventory key, inventory removes it,
\* get-data adds a key per listed hash, merkle-block and tx remove the key
\* of their own hash, anything else changes nothing), and no other step
\* changes pendingResponses.
C16_PendingFollowsTraffic ==
  /\ [](pendingResponses \subseteq {CmdInv} \cup {String(h) : h \in Hashes})
  /\ [][IF RecvStep
        THEN pendingResponses' = Expected(pendingResponses, Head(stallControl))
        ELSE pendingResponses' = pendingResponses]_vars

\* after the three-block request, merkle block 3 removed its own key only
C16_Witness ==
  /\ stage = "got3"
  /\ outcome = "recv"
  /\ pendingResponses = {"h1", "h2"}

\* C17: the detector processes the notifications in the order in which
\* they were handed to the channel, each once, and while it runs it skips
\* none: what it has processed, followed by what the channel holds, is
\* what was handed over.
C17_ProcessedInHandoverOrder ==
  /\ [](Len(taken) <= Len(handed) /\ taken = SubSeq(handed, 1, Len(taken)))
  /\ [](detPc \in {"loop", "select"} => handed = taken \o stallControl)
  /\ [](Len(stallControl) <= StallControlCap)
  /\ [][Len(taken') <= Len(taken) + 1]_vars

\* an inbound message and a request met at the full channel: the request
\* waited, and the detector processed both in the order of the handover
C17_Witness ==
  /\ waited
  /\ Len(taken) = 2
  /\ taken[1] = Other
  /\ taken[2] = GetBlocks
  /\ handed = taken

\* the request m adds the expectation k
AddsKey(m, k) ==
  \/ m.kind = "getblocks" /\ k = CmdInv
  \/ m.kind = "getdata" /\ k \in InvKeys(m.invList)

\* the message m is the response that removes the expectation k
Answers(m, k) ==
  \/ m.kind = "inv" /\ k = CmdInv
  \/ m.kind \in {"merkleblock", "tx"} /\ k = String(m.hash)

\* C18: the calls on one tracker exclude each other: at most one task is
\* inside a tracker, it holds the tracker's mutex, only it changes the
\* set, what dequeueTx found is still there when it deletes, and no
\* identifier is removed more often than it was enqueued.
C18_TrackerCallsExclude ==
  /\ [](\A t, u \in Tasks :
          t # u /\ Inside(t) /\ Inside(u) => Target(t) # Target(u))
  /\ [](\A t \in Tasks : Inside(t) => mutex[Target(t)] = t)
  /\ [](\A d \in Trackers : dequeued[d] <= enqueued[d])
  /\ [][\A d \in Trackers :
          queue'[d] # queue[d] =>
            \E t \in Tasks : mutex[d] = t /\ Target(t) = d /\ Effect(t)]_vars
  /\ [][\A t \in Tasks :
          tPc[t] = "delete" /\ tPc'[t] # "delete" =>
            tArg[t] \in queue[Target(t)]]_vars

\* two tasks called dequeueTx of the same identifier on the same block
\* tracker, one waited for the mutex: one returned true, the other false
C18_Witness ==
  \E t, u \in Tasks :
    /\ tPc[t] = "idle" /\ tPc[u] = "idle"
    /\ tOp[t] = "downloadBlock.dequeueTx"
    /\ tOp[u] = "downloadBlock.dequeueTx"
    /\ tArg[t] = tArg[u]
    /\ tRef[t] = tRef[u]
    /\ tRes[t] /\ ~tRes[u]
    /\ parked[u]
    /\ enqueued[tRef[t]] = 1
    /\ dequeued[tRef[t]] = 1

\* the processed notifications that add or remove the expectation k
Touching(k) ==
  {i \in 1 .. Len(taken) : AddsKey(taken[i], k) \/ Answers(taken[i], k)}

\* the last of them
LastTouching(k) == CHOOSE i \in Touching(k) : \A j \in Touching(k) : j <= i

\* C19: a request's notification is processed before the notification of
\* a response to it: among the processed notifications, every response
\* for a key has its own earlier request for that key; processing the
\* request leaves the key pending, processing the response leaves it
\* not pending, so a key is pending exactly when the last processed
\* notification about it is a request.
C19_RequestBeforeResponse ==
  /\ [](\A n \in 1 .. Len(taken) : \A k \in Keys :
          Answers(taken[n], k) =>
            Cardinality({i \in 1 .. n : Answers(taken[i], k)})
              <= Cardinality({i \in 1 .. n - 1 : AddsKey(taken[i], k)}))
  /\ [][\A k \in Keys :
          /\ RecvStep /\ Answers(Head(stallControl), k) =>
               k \notin pendingResponses'
          /\ RecvStep /\ AddsKey(Head(stallControl), k) =>
               k \in pendingResponses']_vars
  /\ [](\A k \in Keys :
          k \in pendingResponses <=>
            Touching(k) # {} /\ AddsKey(taken[LastTouching(k)], k))

\* get-data and the merkle block of its first hash were both processed,
\* in this order, and the block's expectation is gone
C19_Witness ==
  /\ Len(taken) = 2
  /\ taken[1] = GetData(<<1, 2>>)
  /\ taken[2] = MerkleBlock(1)
  /\ pendingResponses = {"h2"}
  /\ outstanding["h1"] = 0

\* C20: while an expectation is pending, lastActive has been set and is
\* not earlier than the time the last expectation was added; a tick that
\* disconnects does so no earlier than stallResponseTimeout after that.
C20_LastActiveCoversPending ==
  /\ [](pendingResponses # {} =>
          /\ lastActive # ZeroTime
          /\ addedAt # ZeroTime
          /\ lastActive >= addedAt)
  /\ [][TickStep /\ disconnects' > disconnects =>
          /\ lastActive # ZeroTime
          /\ now >= addedAt + stallResponseTimeout]_vars

\* the tick timed out an expectation that had no traffic after it
C20_Witness ==
  /\ outcome = "tickStall"
  /\ disconnects = 1
  /\ addedAt > ZeroTime
  /\ lastActive = addedAt
  /\ now >= addedAt + stallResponseTimeout

====
